---- MODULE Spec2Model ----
(***************************************************************************)
(* Model of keneek/cooling-loads (src/app.py): the project store adapter   *)
(* (save_project, load_project_config, delete_project, load_projects), the *)
(* Streamlit session state it reads and writes, the reference-data         *)
(* validation (BuildingData), the Dataset load and CSV override, the       *)
(* memoized load calculator (compute_results, compute_range_results), the  *)
(* logged-in sidebar's buttons, and save_project run by two sessions.      *)
(***************************************************************************)
EXTENDS Integers, Sequences, FiniteSets, TLC

VARIABLES
    table,            \* DynamoDB table: (username, project_name) -> item
    session_state,    \* st.session_state: a dict, keys appear as they are set
    clock,            \* the wall clock datetime.now() reads
    validated_data,   \* the working Dataset: a sequence of BuildingData
    building_types,   \* [b.building_type for b in validated_data]
    custom_data_loaded, \* this run's override replaced the Dataset ("Custom data loaded!")
    results_cache,    \* st.cache_data memo of compute_results
    range_cache,      \* st.cache_data memo of compute_range_results
    inflight,         \* per browser session: the save_project call between its
                      \* get_item and its put_item, or Idle
    ret               \* what the last call returned or raised

vars == <<table, session_state, clock, validated_data, building_types,
          custom_data_loaded, results_cache, range_cache, inflight, ret>>

store_vars == <<table, session_state, clock>>
calc_vars == <<validated_data, building_types, custom_data_loaded,
               results_cache, range_cache>>

(***************************************************************************)
(* Bounds of the model.                                                    *)
(***************************************************************************)
MaxTime == 3
MaxRows == 2
MaxCached == 2
MaxUploadRows == 3

None == "None"

\* dict helpers: d[k] = v, and d.get(k, default)
DictSet(d, k, v) == [x \in (DOMAIN d) \cup {k} |-> IF x = k THEN v ELSE d[x]]
DictGet(d, k, default) == IF k \in DOMAIN d THEN d[k] ELSE default
DictDel(d, k) == [x \in (DOMAIN d) \ {k} |-> d[x]]

(***************************************************************************)
(* Project store adapter                                                   *)
(***************************************************************************)
\* Browser sessions that run the script at the same time.
Sessions == {"s1", "s2"}

\* No save_project call is under way.
Idle == [state |-> "idle"]

Usernames == {"u1", "u2"}
\* project names in the sort-key order a query returns them
ProjectNameSeq == <<"P1">>
ProjectNames == {ProjectNameSeq[i] : i \in DOMAIN ProjectNameSeq}

\* The project names a table can hold, in the order a query returns them
\* (the sort key); the last one is saved by earlier sessions only.
ListedNameSeq == ProjectNameSeq \o <<"P2">>
ListedNames == {ListedNameSeq[i] : i \in DOMAIN ListedNameSeq}

\* class DesignParams, class Results
DesignParams(r, o, e) == [refrig |-> r, occupancy |-> o, electrical |-> e]
Results(tonnage, tot_occ, elec_kw, dp) ==
    [kind |-> "Results", tonnage |-> tonnage, total_occupancy |-> tot_occ,
     electrical_kw |-> elec_kw, design_params |-> dp]

\* class RangeResults
RangeResults(low, avg, high) ==
    [kind |-> "RangeResults", low |-> low, avg |-> avg, high |-> high]

\* The save inputs of a call: the selection state and the computed results
\* (floats are exact fractions <<numerator, denominator>>, rates whole numbers).
RangeA ==
    RangeResults(Results(<<4, 1>>, <<4, 1>>, <<1, 250>>, DesignParams(1, 1, 1)),
                 Results(<<1, 1>>, <<2, 1>>, <<1, 125>>, DesignParams(4, 2, 2)),
                 Results(<<2, 1>>, <<1, 1>>, <<2, 125>>, DesignParams(2, 4, 4)))
RangeB ==
    RangeResults(Results(<<0, 1>>, <<0, 1>>, <<0, 1>>, DesignParams(1, 2, 4)),
                 Results(<<0, 1>>, <<0, 1>>, <<0, 1>>, DesignParams(2, 2, 1)),
                 Results(<<0, 1>>, <<0, 1>>, <<0, 1>>, DesignParams(4, 1, 2)))
Payloads ==
    { [range_results |-> RangeA, selected_building_types |-> <<"Office">>,
       current_building_type |-> "Office", square_footage |-> 7500],
      [range_results |-> RangeB, selected_building_types |-> <<"Office", "Hotel">>,
       current_building_type |-> "Hotel", square_footage |-> 9000] }

\* class ProjectConfig
ProjectConfig(project_name, p, created_at, updated_at) ==
    [project_name |-> project_name,
     selected_building_types |-> p.selected_building_types,
     current_building_type |-> p.current_building_type,
     square_footage |-> p.square_footage,
     range_results |-> p.range_results,
     created_at |-> created_at,
     updated_at |-> updated_at]

\* A dict of a Results with two of its fields exchanged.
Results_dict_exchanged(r) ==
    [tonnage |-> r.tonnage, total_occupancy |-> r.electrical_kw,
     electrical_kw |-> r.total_occupancy,
     design_params |-> [refrig |-> r.design_params.refrig,
                        occupancy |-> r.design_params.occupancy,
                        electrical |-> r.design_params.electrical]]

\* project_config.dict(): the model and its nested models as plain dicts
Results_dict(r) ==
    [tonnage |-> r.tonnage, total_occupancy |-> r.total_occupancy,
     electrical_kw |-> r.electrical_kw,
     design_params |-> [refrig |-> r.design_params.refrig,
                        occupancy |-> r.design_params.occupancy,
                        electrical |-> r.design_params.electrical]]
dict(project_config) ==
    [project_config EXCEPT
        !.range_results = [low |-> Results_dict(project_config.range_results.low),
                           avg |-> Results_dict(project_config.range_results.avg),
                           high |-> Results_dict(project_config.range_results.high)]]

\* A JSON document: strings, numbers written as an int or as a float, arrays and
\* objects; and a text that is no JSON document.
JString(x) == [json |-> "string", text |-> x]
JInt(x) == [json |-> "number", lexeme |-> "int", digits |-> x]
JFloat(x) == [json |-> "number", lexeme |-> "float", digits |-> x]
JArray(items) == [json |-> "array", items |-> items]
JObject(members) == [json |-> "object", members |-> members]
NotJson == [json |-> "not json"]

\* json.dumps of the dict of a Results and of a ProjectConfig
dumps_Results(d) ==
    JObject([tonnage |-> JFloat(d.tonnage),
             total_occupancy |-> JFloat(d.total_occupancy),
             electrical_kw |-> JFloat(d.electrical_kw),
             design_params |-> JObject([refrig |-> JFloat(d.design_params.refrig),
                                        occupancy |-> JFloat(d.design_params.occupancy),
                                        electrical |-> JFloat(d.design_params.electrical)])])
json_dumps(obj) ==
    JObject([project_name |-> JString(obj.project_name),
             selected_building_types |->
                 JArray([i \in DOMAIN obj.selected_building_types |->
                            JString(obj.selected_building_types[i])]),
             current_building_type |-> JString(obj.current_building_type),
             square_footage |-> JInt(obj.square_footage),
             range_results |-> JObject([low |-> dumps_Results(obj.range_results.low),
                                        avg |-> dumps_Results(obj.range_results.avg),
                                        high |-> dumps_Results(obj.range_results.high)]),
             created_at |-> JString(obj.created_at),
             updated_at |-> JString(obj.updated_at)])

\* json.loads: objects become dicts, arrays lists, strings str, numbers int or
\* float; a text that is no JSON document raises JSONDecodeError
JSONDecodeError(blob) == blob.json = "not json"
RECURSIVE json_loads(_)
json_loads(blob) ==
    CASE blob.json = "string" -> blob.text
      [] blob.json = "number" -> blob.digits
      [] blob.json = "array" -> [i \in DOMAIN blob.items |-> json_loads(blob.items[i])]
      [] blob.json = "object" ->
            [k \in DOMAIN blob.members |-> json_loads(blob.members[k])]

\* ProjectConfig(**config_data): the dict validated back into the models
Results_validate(d) ==
    Results(d.tonnage, d.total_occupancy, d.electrical_kw,
            DesignParams(d.design_params.refrig, d.design_params.occupancy,
                         d.design_params.electrical))
ProjectConfig_validate(config_data) ==
    [project_name |-> config_data.project_name,
     selected_building_types |-> config_data.selected_building_types,
     current_building_type |-> config_data.current_building_type,
     square_footage |-> config_data.square_footage,
     range_results |-> RangeResults(Results_validate(config_data.range_results.low),
                                    Results_validate(config_data.range_results.avg),
                                    Results_validate(config_data.range_results.high)),
     created_at |-> config_data.created_at,
     updated_at |-> config_data.updated_at]

\* A record of the earlier schema: a flat `results` blob, no `config`.
LegacyItem(u, n) ==
    [username |-> u, project_name |-> n,
     results |-> JObject([tonnage |-> JFloat(30), total_occupancy |-> JFloat(45),
                          electrical_kw |-> JFloat(13)]),
     created_at |-> 0]

HasItem(k) == k \in DOMAIN table
IsLegacy(item) == "results" \in DOMAIN item /\ "config" \notin DOMAIN item
IsCurrent(item) == "config" \in DOMAIN item

\* A store call raises ClientError when the service fails, and always when the
\* partition key is None (DynamoDB rejects a key of the wrong type).
raises_ClientError(u, fails) == fails \/ u = None

\* A lookup by project_name alone, whoever owns the record.
get_item_any_owner(u, n) ==
    IF HasItem(<<u, n>>) THEN [Item |-> table[<<u, n>>]]
    ELSE IF \E v \in Usernames : HasItem(<<v, n>>)
    THEN [Item |-> table[<<CHOOSE v \in Usernames : HasItem(<<v, n>>), n>>]]
    ELSE [ResponseMetadata |-> 200]

\* table.get_item(Key=...): the response holds 'Item' only when the key exists
get_item(u, n) ==
    IF HasItem(<<u, n>>) THEN [Item |-> table[<<u, n>>]] ELSE [ResponseMetadata |-> 200]

\* An update that merges into the stored item instead of replacing it.
put_item_merging(t, item) ==
    LET k == <<item.username, item.project_name>>
    IN [x \in (DOMAIN t) \cup {k} |->
          IF x # k THEN t[x]
          ELSE IF k \notin DOMAIN t THEN item
          ELSE [a \in (DOMAIN t[k]) \cup (DOMAIN item) |->
                   IF a \in DOMAIN item THEN item[a] ELSE t[k][a]]]

\* table.put_item(Item=...)
put_item(t, item) ==
    [k \in (DOMAIN t) \cup {<<item.username, item.project_name>>} |->
        IF k = <<item.username, item.project_name>> THEN item ELSE t[k]]

\* table.delete_item(Key=...): unconditional, succeeds whether or not the key exists
delete_item(t, u, n) == [k \in (DOMAIN t) \ {<<u, n>>} |-> t[k]]

NotLoggedIn == "access_token" \notin DOMAIN session_state

Ret(op, name, ok, msg, raised) ==
    [op |-> op, name |-> name, ok |-> ok, msg |-> msg, raised |-> raised,
     username |-> DictGet(session_state, "username", None),
     get_failed |-> FALSE, put_failed |-> FALSE, store_called |-> FALSE,
     items |-> None, project_config |-> None, summaries |-> None,
     swallowed |-> "none"]

\* def save_project(project_name, range_results, selected_building_types,
\*                  current_building_type, square_footage)
save_project(project_name, p, get_fails, put_fails) ==
    IF NotLoggedIn
    THEN /\ ret' = Ret("save_project", project_name, FALSE,
                       "Please log in to save projects", "none")
         /\ UNCHANGED <<table, session_state, clock>>
    ELSE \E t1 \in clock..MaxTime : \E t2 \in t1..MaxTime :
         LET u == session_state["username"]
             lookup_raises == raises_ClientError(u, get_fails)
             response == get_item(u, project_name)
             found == ~lookup_raises /\ "Item" \in DOMAIN response
             \* response['Item']['config'] raises KeyError on a legacy item;
             \* the bare except swallows it like a failed lookup
             key_error == found /\ "config" \notin DOMAIN response.Item
             \* so it does json.loads raising JSONDecodeError
             decode_error == found /\ ~key_error
                             /\ JSONDecodeError(response.Item.config)
             is_update == found /\ ~key_error /\ ~decode_error
             \* what the bare `except: pass` caught
             swallowed == IF lookup_raises THEN "ClientError"
                          ELSE IF key_error THEN "KeyError"
                          ELSE IF decode_error THEN "JSONDecodeError"
                          ELSE "none"
             created_at == IF is_update
                           THEN DictGet(json_loads(response.Item.config),
                                        "created_at", t1)
                           ELSE t1
             now == t2
             project_config == ProjectConfig(project_name, p, created_at, now)
             put_raises == raises_ClientError(u, put_fails)
             item == [username |-> u, project_name |-> project_name,
                      config |-> json_dumps(dict(project_config)),
                      created_at |-> created_at, updated_at |-> now]
         IN /\ clock' = t2
            /\ UNCHANGED session_state
            /\ IF put_raises
               THEN /\ table' = table
                    /\ ret' = [Ret("save_project", project_name, FALSE,
                                   "ClientError", "none")
                               EXCEPT !.get_failed = lookup_raises,
                                      !.put_failed = TRUE,
                                      !.store_called = TRUE,
                                      !.swallowed = swallowed]
               ELSE /\ table' = put_item(table, item)
                    /\ ret' = [Ret("save_project", project_name, TRUE,
                                   IF is_update THEN "Project updated!"
                                                ELSE "Project saved!", "none")
                               EXCEPT !.get_failed = lookup_raises,
                                      !.store_called = TRUE,
                                      !.swallowed = swallowed,
                                      !.project_config = project_config]

SaveProject ==
    \E n \in ProjectNames, p \in Payloads, gf \in BOOLEAN, pf \in BOOLEAN :
        /\ save_project(n, p, gf, pf)
        /\ UNCHANGED <<calc_vars, inflight>>

\* def load_project_config(project_name)
load_project_config_call(project_name, get_fails) ==
    IF NotLoggedIn
    THEN [ret |-> Ret("load_project_config", project_name, FALSE,
                      "Please log in to load projects", "none"),
          session_state |-> session_state]
    ELSE LET u == session_state["username"]
             response == get_item(u, project_name)
         IN IF raises_ClientError(u, get_fails)
            THEN [ret |-> [Ret("load_project_config", project_name, FALSE,
                               "ClientError", "none")
                           EXCEPT !.get_failed = TRUE, !.store_called = TRUE],
                  session_state |-> session_state]
            ELSE IF "Item" \in DOMAIN response
            THEN IF "config" \notin DOMAIN response.Item
                 THEN \* response['Item']['config']: KeyError, not a ClientError,
                      \* leaves the function uncaught
                      [ret |-> [Ret("load_project_config", project_name, FALSE,
                                    None, "KeyError")
                                EXCEPT !.store_called = TRUE],
                       session_state |-> session_state]
                 ELSE IF JSONDecodeError(response.Item.config)
                 THEN \* json.loads raises; JSONDecodeError is no ClientError
                      [ret |-> [Ret("load_project_config", project_name, FALSE,
                                    None, "JSONDecodeError")
                                EXCEPT !.store_called = TRUE],
                       session_state |-> session_state]
                 ELSE LET config_data == json_loads(response.Item.config)
                          project_config == ProjectConfig_validate(config_data)
                          s1 == DictSet(session_state, "loaded_selected_blds",
                                        project_config.selected_building_types)
                          s2 == DictSet(s1, "loaded_current_bld",
                                        project_config.current_building_type)
                          s3 == DictSet(s2, "loaded_sq_ft",
                                        project_config.square_footage)
                          s4 == DictSet(s3, "project_loaded", TRUE)
                          s5 == DictSet(s4, "loaded_project_name", project_name)
                          s6 == DictSet(s5, "need_widget_reset", TRUE)
                      IN [ret |-> [Ret("load_project_config", project_name, TRUE,
                                       "loaded successfully!", "none")
                                   EXCEPT !.store_called = TRUE,
                                          !.project_config = project_config],
                          session_state |-> s6]
            ELSE [ret |-> [Ret("load_project_config", project_name, FALSE,
                               "Project not found", "none")
                           EXCEPT !.store_called = TRUE],
                  session_state |-> session_state]

load_project_config(project_name, get_fails) ==
    /\ ret' = load_project_config_call(project_name, get_fails).ret
    /\ session_state' = load_project_config_call(project_name, get_fails).session_state
    /\ UNCHANGED <<table, clock>>

LoadProjectConfig ==
    \E n \in ProjectNames, gf \in BOOLEAN :
        /\ load_project_config(n, gf)
        /\ UNCHANGED <<calc_vars, inflight>>

\* def delete_project(project_name)
delete_project_call(project_name, delete_fails) ==
    IF NotLoggedIn
    THEN [ret |-> Ret("delete_project", project_name, FALSE,
                      "Please log in to delete projects", "none"),
          table |-> table]
    ELSE LET username == session_state["username"]
         IN IF raises_ClientError(username, delete_fails)
            THEN [ret |-> [Ret("delete_project", project_name, FALSE,
                               "ClientError", "none")
                           EXCEPT !.put_failed = TRUE, !.store_called = TRUE],
                  table |-> table]
            ELSE [ret |-> [Ret("delete_project", project_name, TRUE,
                               "deleted successfully!", "none")
                           EXCEPT !.store_called = TRUE],
                  table |-> delete_item(table, username, project_name)]

delete_project(project_name, delete_fails) ==
    /\ ret' = delete_project_call(project_name, delete_fails).ret
    /\ table' = delete_project_call(project_name, delete_fails).table
    /\ UNCHANGED <<session_state, clock>>

DeleteProject ==
    \E n \in ProjectNames, df \in BOOLEAN :
        /\ delete_project(n, df)
        /\ UNCHANGED <<calc_vars, inflight>>

\* table.query(KeyConditionExpression=Key('username').eq(u)): the user's items
query(u) ==
    LET names == SelectSeq(ListedNameSeq, LAMBDA n : HasItem(<<u, n>>))
    IN [i \in 1..Len(names) |-> table[<<u, names[i]>>]]

\* The body of "for project in projects": the preview of one listed item.
\* created_date is project['created_at'][:10], or 'Unknown date'.
created_date(project) ==
    IF "created_at" \in DOMAIN project THEN <<project.created_at>> ELSE <<"Unknown date">>

error_summary(project) ==
    [preview_text |-> [date |-> created_date(project), label |-> "Error loading project"],
     detail_text |-> [shows |-> "Unable to parse project data"],
     is_legacy |-> FALSE]

project_summary(project) ==
    IF "config" \in DOMAIN project
    THEN IF JSONDecodeError(project.config)
         THEN error_summary(project)
         ELSE LET config_data == json_loads(project.config)
              IN IF "range_results" \notin DOMAIN config_data
                 THEN \* config_data['range_results']: KeyError
                      error_summary(project)
                 ELSE [preview_text |-> [date |-> created_date(project), label |-> ""],
                       detail_text |->
                           [shows |-> "building type, sq ft, tons",
                            building_type |-> DictGet(config_data, "current_building_type",
                                                      "Unknown"),
                            sq_ft |-> DictGet(config_data, "square_footage", 0),
                            avg_tonnage |-> config_data.range_results.avg.tonnage],
                       is_legacy |-> FALSE]
    ELSE IF "results" \in DOMAIN project
    THEN IF JSONDecodeError(project.results)
         THEN error_summary(project)
         ELSE LET results_data == json_loads(project.results)
              IN [preview_text |-> [date |-> created_date(project),
                                    label |-> "Legacy Format"],
                  detail_text |->
                      [shows |-> "tons, people, kW",
                       tonnage |-> DictGet(results_data, "tonnage", 0),
                       occupancy |-> DictGet(results_data, "total_occupancy", 0),
                       electrical |-> DictGet(results_data, "electrical_kw", 0)],
                  is_legacy |-> TRUE]
    ELSE [preview_text |-> [date |-> << >>, label |-> "Invalid project data"],
          detail_text |-> [shows |-> ""],
          is_legacy |-> FALSE]

\* A list whose Load buttons are never disabled.
list_entry_always_loadable(project) ==
    [project_name |-> project.project_name,
     summary |-> project_summary(project),
     load_disabled |-> FALSE]

\* The Load button of a listed project is disabled for legacy projects.
list_entry(project) ==
    [project_name |-> project.project_name,
     summary |-> project_summary(project),
     load_disabled |-> project_summary(project).is_legacy]

\* def load_projects(), and the project list the sidebar renders from its items
load_projects(query_fails) ==
    /\ UNCHANGED <<table, session_state, clock>>
    /\ IF NotLoggedIn
       THEN ret' = Ret("load_projects", None, FALSE, None, "none")
       ELSE LET u == session_state["username"]
            IN IF raises_ClientError(u, query_fails)
               THEN ret' = [Ret("load_projects", None, FALSE, None, "none")
                            EXCEPT !.get_failed = TRUE, !.store_called = TRUE]
               ELSE ret' = [Ret("load_projects", None, TRUE, None, "none")
                            EXCEPT !.store_called = TRUE, !.items = query(u),
                                   !.summaries = [i \in DOMAIN query(u) |->
                                                     list_entry(query(u)[i])]]

LoadProjects ==
    \E qf \in BOOLEAN :
        /\ load_projects(qf)
        /\ UNCHANGED <<calc_vars, inflight>>

\* The sidebar's first pass: the authentication keys are created as None.
init_auth_state ==
    LET s1 == IF "access_token" \notin DOMAIN session_state
              THEN DictSet(session_state, "access_token", None)
              ELSE session_state
        s2 == IF "username" \notin DOMAIN s1 THEN DictSet(s1, "username", None) ELSE s1
    IN s2

InitAuthState ==
    /\ "access_token" \notin DOMAIN session_state
    /\ session_state' = init_auth_state
    /\ ret' = Ret("init_auth_state", None, TRUE, None, "none")
    /\ UNCHANGED <<table, clock>>
    /\ UNCHANGED <<calc_vars, inflight>>

\* def sign_in(username, password)
sign_in(username, auth_ok) ==
    IF auth_ok
    THEN /\ session_state' = DictSet(DictSet(session_state, "access_token", "tok"),
                                     "username", username)
         /\ ret' = Ret("sign_in", None, TRUE, "Logged in successfully!", "none")
    ELSE /\ UNCHANGED session_state
         /\ ret' = Ret("sign_in", None, FALSE, "ClientError", "none")

SignIn ==
    \E u \in Usernames, auth_ok \in BOOLEAN :
        /\ DictGet(session_state, "access_token", None) = None
        /\ sign_in(u, auth_ok)
        /\ UNCHANGED <<table, clock>>
        /\ UNCHANGED <<calc_vars, inflight>>

\* The Sign Out button of the logged-in sidebar.
SignOut ==
    /\ DictGet(session_state, "access_token", None) # None
    /\ session_state' = DictSet(DictSet(session_state, "access_token", None),
                                "username", None)
    /\ ret' = Ret("sign_out", None, TRUE, None, "none")
    /\ UNCHANGED <<table, clock>>
    /\ UNCHANGED <<calc_vars, inflight>>

(***************************************************************************)
(* Reference data: BuildingData validation, Dataset load and CSV override  *)
(***************************************************************************)
\* A blank cell: pandas reads it (dtype=str) as the float NaN.
NaN == "<NaN>"

Tiers == <<"low", "avg", "high">>
Levels == {"Low", "Avg", "High"}

\* The recognized columns (the Field aliases of BuildingData) and their fields.
Aliases ==
    <<"Building Type",
      "Refrigeration_Low", "Refrigeration_Avg", "Refrigeration_High",
      "Occupancy_Low", "Occupancy_Avg", "Occupancy_High",
      "Electrical_Low", "Electrical_Avg", "Electrical_High",
      "Supply_ESW_Low", "Supply_ESW_Avg", "Supply_ESW_High",
      "Supply_North_Low", "Supply_North_Avg", "Supply_North_High",
      "InternalCFM_Low", "InternalCFM_Avg", "InternalCFM_High">>

FieldNames ==
    <<"building_type",
      "refrig_low", "refrig_avg", "refrig_high",
      "occupancy_low", "occupancy_avg", "occupancy_high",
      "electrical_low", "electrical_avg", "electrical_high",
      "supply_esw_low", "supply_esw_avg", "supply_esw_high",
      "supply_north_low", "supply_north_avg", "supply_north_high",
      "internalcfm_low", "internalcfm_avg", "internalcfm_high">>

AliasSet == {Aliases[i] : i \in DOMAIN Aliases}
RateFieldSet == {FieldNames[i] : i \in 2..Len(FieldNames)}
AliasOf(f) == Aliases[CHOOSE i \in DOMAIN FieldNames : FieldNames[i] = f]

\* float(s) of pydantic's lax coercion: the strings it accepts and their values
FloatOf == ("0" :> 0) @@ ("1" :> 1) @@ ("2" :> 2) @@ ("4" :> 4)
IsNumeric(v) == v \in DOMAIN FloatOf

\* @model_validator(mode='before') convert_empty_to_none
convert_empty_to_none(values) ==
    [k \in DOMAIN values |-> IF values[k] = "" \/ values[k] = NaN THEN None ELSE values[k]]

\* Field validation of BuildingData(**row): every field is required (Field(alias=...)
\* gives no default), Optional[float] accepts None or a number, building_type a str.
FieldErrors(values) ==
    {a \in AliasSet : a \notin DOMAIN values}
    \cup {a \in (AliasSet \ {"Building Type"}) \cap DOMAIN values :
              values[a] # None /\ ~IsNumeric(values[a])}
    \cup {a \in {"Building Type"} \cap DOMAIN values : values[a] = None}

\* @model_validator(mode='after') require_building_and_one_rate
require_building_and_one_rate(bd) == bd.building_type # ""

ValidationError == [ValidationError |-> TRUE]

\* An Optional[float] field: None, or a number
NoFloat == << >>
Float(x) == <<x>>

\* BuildingData(**row.to_dict()): the record, or ValidationError; extra keys are ignored
BuildingData(row) ==
    LET values == convert_empty_to_none(row)
    IN IF FieldErrors(values) # {}
       THEN ValidationError
       ELSE LET bd == [f \in {FieldNames[i] : i \in DOMAIN FieldNames} |->
                          IF f = "building_type" THEN values[AliasOf(f)]
                          ELSE IF values[AliasOf(f)] = None THEN NoFloat
                          ELSE Float(FloatOf[values[AliasOf(f)]])]
            IN IF require_building_and_one_rate(bd) THEN bd ELSE ValidationError

\* for i, (_, row) in enumerate(df.iterrows()): try: append(BuildingData(...))
\* except ValidationError: st.warning(f"... row {i + 2}")
RECURSIVE load_rows(_, _)
load_rows(rows, i) ==
    IF i > Len(rows) THEN [data |-> <<>>, warnings |-> <<>>]
    ELSE LET rest == load_rows(rows, i + 1)
             bd == BuildingData(rows[i])
         IN IF bd = ValidationError
            THEN [data |-> rest.data, warnings |-> <<(i - 1) + 2>> \o rest.warnings]
            ELSE [data |-> <<bd>> \o rest.data, warnings |-> rest.warnings]

\* building_types = [b.building_type for b in validated_data]
type_list(data) == [i \in DOMAIN data |-> data[i].building_type]

\* --- the rows the model draws its files from ---
NA3 == <<NaN, NaN, NaN>>

Row(bt, low, avg, high) ==
    [a \in AliasSet |->
        CASE a = "Building Type" -> bt
          [] a = "Refrigeration_Low" -> low[1]
          [] a = "Occupancy_Low" -> low[2]
          [] a = "Electrical_Low" -> low[3]
          [] a = "Refrigeration_Avg" -> avg[1]
          [] a = "Occupancy_Avg" -> avg[2]
          [] a = "Electrical_Avg" -> avg[3]
          [] a = "Refrigeration_High" -> high[1]
          [] a = "Occupancy_High" -> high[2]
          [] a = "Electrical_High" -> high[3]
          [] OTHER -> NaN]

OfficeAvgOnly == Row("Office", NA3, <<"2", "1", "1">>, NA3)
OfficeFull == Row("Office", <<"1", "1", "1">>, <<"4", "2", "2">>, <<"2", "4", "4">>)
HotelZeros == Row("Hotel", <<"0", "1", "1">>, <<"1", "0", "1">>, <<"1", "1", "0">>)
BlankType == Row(NaN, <<"1", "1", "1">>, <<"1", "1", "1">>, <<"1", "1", "1">>)
BadNumber == Row("Office", NA3, <<"abc", "1", "1">>, NA3)

\* The rows by name: an uploaded file is drawn as a header and a list of row names.
RowNames == {"OfficeAvgOnly", "OfficeFull", "HotelZeros", "BlankType", "BadNumber"}
RowOf(name) ==
    CASE name = "OfficeAvgOnly" -> OfficeAvgOnly
      [] name = "OfficeFull" -> OfficeFull
      [] name = "HotelZeros" -> HotelZeros
      [] name = "BlankType" -> BlankType
      [] name = "BadNumber" -> BadNumber

\* a file without one recognized column, and a file with an unknown extra column
DropColumn(row, a) == [x \in (DOMAIN row) \ {a} |-> row[x]]
AddColumn(row, a, v) == [x \in (DOMAIN row) \cup {a} |-> IF x = a THEN v ELSE row[x]]

SeqsUpTo(S, n) == UNION {[1..m -> S] : m \in 0..n}

\* The files an upload is drawn from: all recognized columns, one of them missing,
\* or an unknown one added; every row of a file has the file's columns.
Csvs ==
    {<<"all", names>> : names \in SeqsUpTo(RowNames, MaxRows)}
    \cup {<<"no Supply_ESW_Low", <<n>> >> : n \in RowNames}
    \cup {<<"extra Notes", <<n>> >> : n \in RowNames}

\* The uploads of the Dataset load on its own: the files above, and longer files
\* with every recognized column.
UploadCsvs == Csvs \cup {<<"all", names>> : names \in SeqsUpTo(RowNames, MaxUploadRows)}

\* pd.read_csv(uploaded, dtype=str): the rows of the file
read_csv(file) ==
    [i \in DOMAIN file[2] |->
        CASE file[1] = "all" -> RowOf(file[2][i])
          [] file[1] = "no Supply_ESW_Low" -> DropColumn(RowOf(file[2][i]), "Supply_ESW_Low")
          [] file[1] = "extra Notes" -> AddColumn(RowOf(file[2][i]), "Notes", "x")]

\* ashrae_data.csv, the file the Dataset is loaded from on every script run
DefaultCsv == <<"all", <<"OfficeAvgOnly", "HotelZeros">> >>

\* One script run up to the CSV override: the Dataset is loaded from data_path,
\* then replaced by the uploaded file's valid rows if there are any.
\* load_rows of every file of the model, evaluated once
Loaded == [file \in UploadCsvs \cup {DefaultCsv} |-> load_rows(read_csv(file), 1)]

\* What a run shows: st.warning for each rejected row of data_path and of the
\* upload, and st.sidebar.success when the upload replaced the Dataset.
row_warnings(source, warnings) ==
    [i \in DOMAIN warnings |-> [kind |-> "row_warning", source |-> source,
                                row |-> warnings[i]]]
success_message == [kind |-> "success", text |-> "Custom data loaded!"]

\* An override that replaces the Dataset whatever the upload held.
override_unconditionally(data, temp) == temp

\* An override that adds the upload's rows to the Dataset.
override_appending(data, temp) == IF temp # << >> THEN data \o temp ELSE data

\* if temp: validated_data = temp
override(data, temp) == IF temp # << >> THEN temp ELSE data

script_run(uploaded, file) ==
    LET loaded == Loaded[DefaultCsv]
        temp == IF uploaded THEN Loaded[file]
                ELSE [data |-> <<>>, warnings |-> <<>>]
        replaced == uploaded /\ temp.data # <<>>
        data == IF uploaded THEN override(loaded.data, temp.data) ELSE loaded.data
    IN /\ validated_data' = data
       /\ building_types' = type_list(data)
       /\ custom_data_loaded' = replaced
       /\ ret' = [op |-> "script_run", uploaded |-> uploaded, file |-> file,
                  load_warnings |-> loaded.warnings,
                  override_warnings |-> temp.warnings,
                  custom_data_loaded |-> replaced,
                  data_before_override |-> loaded.data,
                  override_data |-> temp.data,
                  types_before_override |-> type_list(loaded.data),
                  messages |-> row_warnings("data_path", loaded.warnings)
                               \o row_warnings("uploaded", temp.warnings)
                               \o (IF replaced THEN <<success_message>> ELSE << >>)]
       /\ UNCHANGED <<results_cache, range_cache>>

ScriptRun ==
    /\ script_run(FALSE, DefaultCsv)
    /\ UNCHANGED <<store_vars, inflight>>

CsvOverride ==
    \E file \in Csvs :
        /\ script_run(TRUE, file)
        /\ UNCHANGED <<store_vars, inflight>>

\* The same override, with an upload of up to MaxUploadRows rows.
UploadCsv ==
    \E file \in UploadCsvs :
        /\ script_run(TRUE, file)
        /\ UNCHANGED <<store_vars, inflight>>

(***************************************************************************)
(* Load calculator: compute_results and compute_range_results, memoized    *)
(* by st.cache_data on their arguments alone                               *)
(***************************************************************************)
BuildingTypeArgs == {"Office", "Hotel"}
Areas == {0, 4}

RECURSIVE GCD(_, _)
GCD(a, b) == IF b = 0 THEN a ELSE GCD(b, a % b)

\* The exact quotient a / b (b > 0) as a reduced fraction <<numerator, denominator>>.
Quot(a, b) == LET g == GCD(a, b) IN <<a \div g, b \div g>>

level_lower(level) == CASE level = "Low" -> "low" [] level = "Avg" -> "avg" [] level = "High" -> "high"

Returned(v) == [raised |-> "none", value |-> v]
Raised(exc, msg) == [raised |-> exc, value |-> [kind |-> "exception", msg |-> msg]]
NoneValue == [kind |-> "None"]

\* next((b for b in validated_data if b.building_type == building_type), None)
lookup(data, building_type) ==
    LET hits == {i \in DOMAIN data : data[i].building_type = building_type}
    IN IF hits = {} THEN NoneValue
       ELSE data[CHOOSE i \in hits : \A j \in hits : i <= j]

\* The body of compute_results, run on a cache miss.
compute_results_body(data, building_type, area, level) ==
    IF level \notin Levels
    THEN Raised("ValueError", "Invalid load level")
    ELSE LET bd == lookup(data, building_type)
         IN IF bd = NoneValue
            THEN Returned(NoneValue)
            ELSE LET r == bd["refrig_" \o level_lower(level)]
                     o == bd["occupancy_" \o level_lower(level)]
                     e == bd["electrical_" \o level_lower(level)]
                 IN IF NoFloat \in {r, o, e}
                    THEN Raised("ValueError",
                                "Selected building type/load has missing data")
                    ELSE IF r[1] = 0 \/ o[1] = 0
                    THEN \* float(area) / 0.0
                         Raised("ZeroDivisionError", "float division by zero")
                    ELSE Returned(Results(Quot(area, r[1]), Quot(area, o[1]),
                                          Quot(area * e[1], 1000),
                                          DesignParams(r[1], o[1], e[1])))

\* @st.cache_data: a call whose arguments were seen returns the stored value; a
\* miss runs the body and stores what it returns (an exception stores nothing).
cached_compute_results(cache, data, building_type, area, level) ==
    LET key == <<building_type, area, level>>
    IN IF key \in DOMAIN cache
       THEN [out |-> Returned(cache[key]), cache |-> cache, hit |-> TRUE]
       ELSE LET out == compute_results_body(data, building_type, area, level)
            IN [out |-> out,
                cache |-> IF out.raised = "none" THEN DictSet(cache, key, out.value)
                          ELSE cache,
                hit |-> FALSE]

\* def compute_results(building_type, area, level)
compute_results(building_type, area, level) ==
    LET call == cached_compute_results(results_cache, validated_data,
                                       building_type, area, level)
    IN /\ results_cache' = call.cache
       /\ ret' = [op |-> "compute_results", args |-> <<building_type, area, level>>,
                  out |-> call.out, hit |-> call.hit]
       /\ UNCHANGED <<validated_data, building_types, custom_data_loaded, range_cache>>

\* The memo is unbounded in the code; the model stops adding entries at MaxCached.
CacheHasRoom(key, cache) ==
    key \in DOMAIN cache
    \/ Cardinality(DOMAIN results_cache) + Cardinality(DOMAIN range_cache) < MaxCached

ComputeResults ==
    \E bt \in BuildingTypeArgs, area \in Areas, level \in Levels :
        /\ CacheHasRoom(<<bt, area, level>>, results_cache)
        /\ compute_results(bt, area, level)
        /\ UNCHANGED <<store_vars, inflight>>

\* The body of compute_range_results: the three tier calls in order, each through
\* the compute_results memo; the first exception ends the try block.
compute_range_results_body(cache, data, building_type, area) ==
    LET low == cached_compute_results(cache, data, building_type, area, "Low")
        avg == cached_compute_results(low.cache, data, building_type, area, "Avg")
        high == cached_compute_results(avg.cache, data, building_type, area, "High")
    IN IF low.out.raised # "none"
       THEN [out |-> Returned(NoneValue), cache |-> low.cache]
       ELSE IF avg.out.raised # "none"
       THEN [out |-> Returned(NoneValue), cache |-> avg.cache]
       ELSE IF high.out.raised # "none"
       THEN [out |-> Returned(NoneValue), cache |-> high.cache]
       ELSE IF NoneValue \in {low.out.value, avg.out.value, high.out.value}
       THEN [out |-> Returned(NoneValue), cache |-> high.cache]
       ELSE [out |-> Returned(RangeResults(low.out.value, avg.out.value,
                                           high.out.value)),
             cache |-> high.cache]

\* def compute_range_results(building_type, area)
compute_range_results(building_type, area) ==
    LET key == <<building_type, area>>
    IN IF key \in DOMAIN range_cache
       THEN /\ ret' = [op |-> "compute_range_results", args |-> key,
                       out |-> Returned(range_cache[key]), hit |-> TRUE]
            /\ UNCHANGED <<validated_data, building_types, custom_data_loaded,
                           results_cache, range_cache>>
       ELSE LET call == compute_range_results_body(results_cache, validated_data,
                                                   building_type, area)
            IN /\ results_cache' = call.cache
               /\ range_cache' = DictSet(range_cache, key, call.out.value)
               /\ ret' = [op |-> "compute_range_results", args |-> key,
                          out |-> call.out, hit |-> FALSE]
               /\ UNCHANGED <<validated_data, building_types, custom_data_loaded>>

ComputeRangeResults ==
    \E bt \in BuildingTypeArgs, area \in Areas :
        /\ CacheHasRoom(<<bt, area>>, range_cache)
        /\ compute_range_results(bt, area)
        /\ UNCHANGED <<store_vars, inflight>>

(***************************************************************************)
(* The logged-in sidebar: the buttons of the project management section    *)
(* and of the project list, each with the script run its click triggers.   *)
(***************************************************************************)
\* if st.session_state.get('access_token'): the logged-in sidebar is rendered
LoggedInUi == DictGet(session_state, "access_token", None) # None

\* projects = load_projects(); for project in projects: the listed projects
projects == IF LoggedInUi THEN query(session_state["username"]) ELSE << >>

Listed(project_name) ==
    \E i \in DOMAIN projects : projects[i].project_name = project_name

\* if project_loaded and loaded_project_name: the loaded-project controls show
LoadedControls ==
    /\ DictGet(session_state, "project_loaded", FALSE)
    /\ DictGet(session_state, "loaded_project_name", None) # None

\* The top of every run: a pending widget reset is consumed.
widget_reset(ss) ==
    IF DictGet(ss, "project_loaded", FALSE) /\ DictGet(ss, "need_widget_reset", FALSE)
    THEN DictSet(ss, "need_widget_reset", FALSE)
    ELSE ss

\* confirm_key = f'confirm_delete_{project_name}'
confirm_key(project_name) == "confirm_delete_" \o project_name

confirming(ss, project_name) == DictGet(ss, confirm_key(project_name), FALSE)

\* for other_project in projects: st.session_state[other_confirm_key] = False
RECURSIVE clear_other_confirmations(_, _, _)
clear_other_confirmations(ss, listed, project_name) ==
    IF listed = << >> THEN ss
    ELSE LET other_confirm_key == confirm_key(Head(listed).project_name)
             cleared == IF other_confirm_key # confirm_key(project_name)
                        THEN DictSet(ss, other_confirm_key, FALSE)
                        ELSE ss
         IN clear_other_confirmations(cleared, Tail(listed), project_name)

\* A Delete click that sets its own flag and leaves the other flags alone.
click_delete_keeping_others(project_name) ==
    DictSet(session_state, confirm_key(project_name), TRUE)

\* The Delete button of a listed project: the session state it leaves.
click_delete(project_name) ==
    DictSet(clear_other_confirmations(session_state, projects, project_name),
            confirm_key(project_name), TRUE)

ClickDelete ==
    \E project_name \in ListedNames :
        /\ Listed(project_name)
        /\ ~confirming(session_state, project_name)
        /\ session_state' = click_delete(project_name)
        /\ ret' = Ret("click_delete", project_name, TRUE, None, "none")
        /\ UNCHANGED <<table, clock>>
        /\ UNCHANGED <<calc_vars, inflight>>

\* The Yes button, shown while the project's flag is set: delete_project runs
\* and the flag is cleared whatever it returned.
ClickYes ==
    \E project_name \in ListedNames, delete_fails \in BOOLEAN :
        /\ Listed(project_name)
        /\ confirming(session_state, project_name)
        /\ ret' = delete_project_call(project_name, delete_fails).ret
        /\ table' = delete_project_call(project_name, delete_fails).table
        /\ session_state' = DictSet(session_state, confirm_key(project_name), FALSE)
        /\ UNCHANGED clock
        /\ UNCHANGED <<calc_vars, inflight>>

\* The No button.
ClickNo ==
    \E project_name \in ListedNames :
        /\ Listed(project_name)
        /\ confirming(session_state, project_name)
        /\ session_state' = DictSet(session_state, confirm_key(project_name), FALSE)
        /\ ret' = Ret("click_no", project_name, TRUE, None, "none")
        /\ UNCHANGED <<table, clock>>
        /\ UNCHANGED <<calc_vars, inflight>>

\* The Load button of a listed project, disabled for legacy projects; a
\* successful load reruns the script, which consumes need_widget_reset.
ClickLoad ==
    \E project_name \in ListedNames, get_fails \in BOOLEAN :
        /\ \E i \in DOMAIN projects :
              /\ projects[i].project_name = project_name
              /\ ~list_entry(projects[i]).load_disabled
        /\ ret' = load_project_config_call(project_name, get_fails).ret
        /\ session_state' =
              widget_reset(load_project_config_call(project_name, get_fails).session_state)
        /\ UNCHANGED <<table, clock>>
        /\ UNCHANGED <<calc_vars, inflight>>

\* The Update button of the loaded-project controls.
ClickUpdate ==
    \E p \in Payloads, get_fails \in BOOLEAN, put_fails \in BOOLEAN :
        /\ LoggedInUi
        /\ LoadedControls
        /\ save_project(session_state["loaded_project_name"], p, get_fails, put_fails)
        /\ UNCHANGED <<calc_vars, inflight>>

\* The Clear Loaded Project button.
ClickClear ==
    /\ LoggedInUi
    /\ LoadedControls
    /\ session_state' = DictSet(DictSet(session_state, "project_loaded", FALSE),
                                "loaded_project_name", None)
    /\ ret' = Ret("click_clear", None, TRUE, None, "none")
    /\ UNCHANGED <<table, clock>>
    /\ UNCHANGED <<calc_vars, inflight>>

\* The Save Project button, shown while no project is loaded.
ClickSaveProject ==
    \E project_name \in ProjectNames, p \in Payloads,
       get_fails \in BOOLEAN, put_fails \in BOOLEAN :
        /\ LoggedInUi
        /\ ~LoadedControls
        /\ save_project(project_name, p, get_fails, put_fails)
        /\ UNCHANGED <<calc_vars, inflight>>

(***************************************************************************)
(* save_project as two sessions run it: the store is reached twice, by     *)
(* get_item (lines 116-121) and by put_item (lines 145-153), and another   *)
(* session's calls can fall between the two.                               *)
(***************************************************************************)
\* Lines 106-143 of save_project in session s, signed in as u: created_at is
\* read from the clock, the lookup replaces it when it finds a record that
\* parses, and the ProjectConfig is built.
save_project_lookup(s, u, project_name, p) ==
    \E t1 \in clock..MaxTime : \E t2 \in t1..MaxTime :
    LET response == get_item(u, project_name)
        found == "Item" \in DOMAIN response
        key_error == found /\ "config" \notin DOMAIN response.Item
        decode_error == found /\ ~key_error /\ JSONDecodeError(response.Item.config)
        is_update == found /\ ~key_error /\ ~decode_error
        created_at == IF is_update
                      THEN DictGet(json_loads(response.Item.config), "created_at", t1)
                      ELSE t1
        now == t2
    IN /\ inflight[s] = Idle
       /\ inflight' = [inflight EXCEPT ![s] =
                          [state |-> "looked_up", username |-> u,
                           project_name |-> project_name, is_update |-> is_update,
                           project_config |-> ProjectConfig(project_name, p,
                                                            created_at, now)]]
       /\ clock' = t2
       /\ ret' = [op |-> "save_project_lookup", session |-> s, name |-> project_name,
                  username |-> u, is_update |-> is_update]
       /\ UNCHANGED <<table, session_state>>

\* Lines 145-156 of save_project in session s: put_item and the return.
save_project_put(s) ==
    LET call == inflight[s]
        project_config == call.project_config
        item == [username |-> call.username, project_name |-> call.project_name,
                 config |-> json_dumps(dict(project_config)),
                 created_at |-> project_config.created_at,
                 updated_at |-> project_config.updated_at]
    IN /\ call # Idle
       /\ table' = put_item(table, item)
       /\ inflight' = [inflight EXCEPT ![s] = Idle]
       /\ ret' = [op |-> "save_project_put", session |-> s, name |-> call.project_name,
                  username |-> call.username, is_update |-> call.is_update,
                  ok |-> TRUE,
                  msg |-> IF call.is_update THEN "Project updated!" ELSE "Project saved!",
                  replaced |-> HasItem(<<call.username, call.project_name>>)]
       /\ UNCHANGED <<session_state, clock>>

SaveProjectLookup ==
    \E s \in Sessions, u \in Usernames, n \in ProjectNames, p \in Payloads :
        /\ save_project_lookup(s, u, n, p)
        /\ UNCHANGED calc_vars

SaveProjectPut ==
    \E s \in Sessions :
        /\ save_project_put(s)
        /\ UNCHANGED calc_vars

(***************************************************************************)
(* Initial state and specifications                                        *)
(***************************************************************************)
\* st.session_state after the first pass over "Initialize session state"
InitSession ==
    [selected_bld |-> None, project_loaded |-> FALSE,
     loaded_selected_blds |-> <<>>, loaded_current_bld |-> None,
     loaded_sq_ft |-> 7500, loaded_project_name |-> None,
     show_save_as_new |-> FALSE]

\* The table holds what earlier runs left: nothing, or records of the legacy schema.
InitTables ==
    { [k \in K |-> LegacyItem(k[1], k[2])] : K \in SUBSET (Usernames \X ProjectNames) }

\* Records another writer left: one with neither `config` nor `results`, and one
\* whose `config` is no JSON document.
InvalidItem(u, n) == [username |-> u, project_name |-> n, created_at |-> 0]
CorruptItem(u, n) == [username |-> u, project_name |-> n, config |-> NotJson,
                      created_at |-> 0]

ForeignItems(u, n) == {LegacyItem(u, n), InvalidItem(u, n), CorruptItem(u, n)}

InitListTables ==
    UNION { {t \in [K -> UNION {ForeignItems(k[1], k[2]) : k \in K}] :
                \A k \in K : t[k] \in ForeignItems(k[1], k[2])} :
            K \in SUBSET (Usernames \X ProjectNames) }

InitStore ==
    /\ table \in InitTables
    /\ session_state = InitSession
    /\ clock = 1
    /\ inflight = [s \in Sessions |-> Idle]

\* The module-level state after the first load of data_path.
InitCalc ==
    /\ validated_data = Loaded[DefaultCsv].data
    /\ building_types = type_list(validated_data)
    /\ custom_data_loaded = FALSE
    /\ results_cache = <<>>
    /\ range_cache = <<>>

Init ==
    /\ InitStore
    /\ InitCalc
    /\ ret = [op |-> "none"]

NextStore ==
    \/ InitAuthState
    \/ SignIn
    \/ SignOut
    \/ SaveProject
    \/ LoadProjectConfig
    \/ DeleteProject
    \/ LoadProjects

NextCalc ==
    \/ ScriptRun
    \/ CsvOverride
    \/ ComputeResults
    \/ ComputeRangeResults

Next == NextStore \/ NextCalc

Spec == Init /\ [][Next]_vars

SpecStore == Init /\ [][NextStore]_vars

\* Two signed-in sessions saving at the same time.
NextSaves ==
    \/ SaveProjectLookup
    \/ SaveProjectPut

SpecSaves == Init /\ [][NextSaves]_vars

\* One browser session using the sidebar.
NextUi ==
    \/ InitAuthState
    \/ SignIn
    \/ SignOut
    \/ ClickSaveProject
    \/ ClickUpdate
    \/ ClickClear
    \/ ClickLoad
    \/ ClickDelete
    \/ ClickYes
    \/ ClickNo

SpecUi == Init /\ [][NextUi]_vars

\* A record of the current schema, as an earlier save left it.
CurrentItem(u, n) ==
    LET p == CHOOSE x \in Payloads : x.current_building_type = "Office"
        project_config == ProjectConfig(n, p, 1, 1)
    IN [username |-> u, project_name |-> n,
        config |-> json_dumps(dict(project_config)),
        created_at |-> 1, updated_at |-> 1]

\* A signed-in session in front of its project list, no confirmation pending.
InitConfirm ==
    /\ \E u \in Usernames :
          /\ session_state = DictSet(DictSet(InitSession, "access_token", "tok"),
                                     "username", u)
          /\ \E K \in SUBSET ({u} \X ListedNames) :
                table \in {t \in [K -> UNION {{CurrentItem(k[1], k[2]),
                                                LegacyItem(k[1], k[2])} : k \in K}] :
                              \A k \in K : t[k] \in {CurrentItem(k[1], k[2]),
                                                      LegacyItem(k[1], k[2])}}
    /\ clock = 1
    /\ inflight = [s \in Sessions |-> Idle]
    /\ InitCalc
    /\ ret = [op |-> "none"]

\* The delete confirmation of the project list.
NextConfirm ==
    \/ ClickDelete
    \/ ClickYes
    \/ ClickNo

SpecConfirm == InitConfirm /\ [][NextConfirm]_vars

\* The store with records of other writers in it, for the project list.
InitList ==
    /\ table \in InitListTables
    /\ session_state = InitSession
    /\ clock = 1
    /\ inflight = [s \in Sessions |-> Idle]
    /\ InitCalc
    /\ ret = [op |-> "none"]

SpecList == InitList /\ [][NextStore]_vars

\* The calculator alone: the store is empty and stays so.
InitCalcOnly ==
    /\ table = << >>
    /\ session_state = InitSession
    /\ clock = 1
    /\ inflight = [s \in Sessions |-> Idle]
    /\ InitCalc
    /\ ret = [op |-> "none"]

SpecCalc == InitCalcOnly /\ [][NextCalc]_vars

\* The Dataset load and override alone, with longer uploads.
NextLoad ==
    \/ ScriptRun
    \/ UploadCsv

SpecLoad == InitCalcOnly /\ [][NextLoad]_vars

(***************************************************************************)
(* Claims about the Dataset and the load calculator (checked under SpecCalc)*)
(***************************************************************************)
\* What a call computes from the Dataset as it is now, with no memo involved.
FreshResults(args) == compute_results_body(validated_data, args[1], args[2], args[3])
FreshRange(args) == compute_range_results_body(<< >>, validated_data, args[1], args[2]).out

\* C3: once an override has replaced the Dataset, every compute_results and
\* compute_range_results call returns the value derived from the new Dataset,
\* never a memoized result of the previous one.
C3_NoStaleMemoAfterOverride ==
    custom_data_loaded
    => /\ ret.op = "compute_results" => ret.out = FreshResults(ret.args)
       /\ ret.op = "compute_range_results" => ret.out = FreshRange(ret.args)

\* The looked-up record has all three rates of the tier and one of them is 0.
ZeroRateTier(building_type, level) ==
    LET bd == lookup(validated_data, building_type)
    IN /\ bd # NoneValue
       /\ LET r == bd["refrig_" \o level_lower(level)]
              o == bd["occupancy_" \o level_lower(level)]
              e == bd["electrical_" \o level_lower(level)]
          IN NoFloat \notin {r, o, e} /\ 0 \in {r[1], o[1], e[1]}

\* C7: compute_results on a tier whose refrig, occupancy or electrical rate is 0
\* fails with a classified error: it neither returns a Result nor raises a bare
\* division-by-zero.
C7_ZeroRateIsInvalidRate ==
    (ret.op = "compute_results" /\ ~ret.hit /\ ZeroRateTier(ret.args[1], ret.args[3]))
    => ret.out.raised \notin {"none", "ZeroDivisionError"}

\* The rows of an uploaded file that have a Building Type and only blank or
\* numeric rate cells.
WellFormedRow(row) ==
    /\ "Building Type" \in DOMAIN row
    /\ row["Building Type"] \notin {"", NaN}
    /\ \A a \in (DOMAIN row) \cap (AliasSet \ {"Building Type"}) :
          row[a] \in {"", NaN} \/ IsNumeric(row[a])

\* C8: whatever recognized rate columns the file lacks, and whatever unknown
\* columns it adds, every row with a non-empty Building Type validates (is not
\* reported as invalid).
C8_MissingColumnsAreAbsent ==
    (ret.op = "script_run" /\ ret.uploaded)
    => \A i \in DOMAIN read_csv(ret.file) :
          WellFormedRow(read_csv(ret.file)[i])
          => \A w \in DOMAIN ret.override_warnings :
                ret.override_warnings[w] # (i - 1) + 2

\* The first tier outcome, in call order, that is not a Result.
IsFailure(out) == out.raised # "none" \/ out.value = NoneValue
FirstFailure(building_type, area) ==
    LET low == compute_results_body(validated_data, building_type, area, "Low")
        avg == compute_results_body(validated_data, building_type, area, "Avg")
        high == compute_results_body(validated_data, building_type, area, "High")
    IN IF IsFailure(low) THEN low ELSE IF IsFailure(avg) THEN avg ELSE high

\* C9: when a tier computation fails, compute_range_results ends with that tier's
\* own outcome (unknown building type, missing rates or invalid rate), so the
\* caller can tell the causes apart.
C9_RangePropagatesErrorKind ==
    (/\ ret.op = "compute_range_results" /\ ~ret.hit
     /\ IsFailure(FirstFailure(ret.args[1], ret.args[2])))
    => ret.out = FirstFailure(ret.args[1], ret.args[2])

\* C10: compute_results for a building type that is not in the Dataset ends with
\* the unknown-building outcome, never with a Result and never with the
\* missing-data failure.
C10_UnknownBuildingType ==
    (ret.op = "compute_results"
       /\ lookup(validated_data, ret.args[1]) = NoneValue)
    => ret.out = Returned(NoneValue)

\* compute_results(building_type, area, level), called now, returns a Results.
TierSucceeds(building_type, area, level) ==
    LET call == cached_compute_results(results_cache, validated_data,
                                       building_type, area, level)
    IN call.out.raised = "none" /\ call.out.value # NoneValue

\* C13: compute_range_results returns a RangeResults exactly when compute_results
\* succeeds for Low, Avg and High of the same building type and area, and a
\* RangeResults always holds three Results.
C13_RangeIffAllTiers ==
    ret.op = "compute_range_results"
    => /\ (ret.out.value.kind = "RangeResults")
            <=> \A level \in Levels : TierSucceeds(ret.args[1], ret.args[2], level)
       /\ ret.out.value.kind = "RangeResults"
            => \A t \in {"low", "avg", "high"} : ret.out.value[t].kind = "Results"

\* The rates of the requested tier in the record the Dataset holds for the type.
TierRates(building_type, level) ==
    LET bd == lookup(validated_data, building_type)
    IN <<bd["refrig_" \o level_lower(level)], bd["occupancy_" \o level_lower(level)],
         bd["electrical_" \o level_lower(level)]>>

InDataset(building_type) == lookup(validated_data, building_type) # NoneValue

\* C21: compute_results fails with the missing-data error exactly when the
\* building type is in the Dataset and one of the three rates of the requested
\* tier is absent, whatever the other two tiers hold.
C21_IncompleteRatesExactly ==
    ret.op = "compute_results"
    => ((ret.out = Raised("ValueError", "Selected building type/load has missing data"))
        <=> (/\ InDataset(ret.args[1])
             /\ \E i \in 1..3 : TierRates(ret.args[1], ret.args[3])[i] = NoFloat))

\* C22: for a building type of the Dataset, an area >= 0 and a tier whose three
\* rates are present and non-zero, compute_results returns area / refrig,
\* area / occupancy and area * electrical / 1000 exactly, with the tier's own
\* three rates as design_params; area 0 gives all-zero results.
C22_ResultFormulas ==
    (/\ ret.op = "compute_results"
     /\ InDataset(ret.args[1])
     /\ \A i \in 1..3 : /\ TierRates(ret.args[1], ret.args[3])[i] # NoFloat
                        /\ TierRates(ret.args[1], ret.args[3])[i][1] # 0)
    => LET area == ret.args[2]
           r == TierRates(ret.args[1], ret.args[3])[1][1]
           o == TierRates(ret.args[1], ret.args[3])[2][1]
           e == TierRates(ret.args[1], ret.args[3])[3][1]
       IN /\ ret.out.raised = "none"
          /\ ret.out.value.kind = "Results"
          /\ ret.out.value.tonnage = Quot(area, r)
          /\ ret.out.value.total_occupancy = Quot(area, o)
          /\ ret.out.value.electrical_kw = Quot(area * e, 1000)
          /\ ret.out.value.design_params = DesignParams(r, o, e)
          /\ area = 0 => /\ ret.out.value.tonnage[1] = 0
                         /\ ret.out.value.total_occupancy[1] = 0
                         /\ ret.out.value.electrical_kw[1] = 0

\* The Datasets a run can install: data_path's, or an upload's valid rows.
DatasetVersions ==
    {Loaded[DefaultCsv].data} \cup {Loaded[file].data : file \in Csvs}

\* C23: the three tier Results of a returned RangeResults all derive from one
\* Dataset version, never some from the old and some from the new one.
C23_RangeFromOneDataset ==
    (ret.op = "compute_range_results" /\ ret.out.value.kind = "RangeResults")
    => \E data \in DatasetVersions :
          /\ ret.out.value.low
               = compute_results_body(data, ret.args[1], ret.args[2], "Low").value
          /\ ret.out.value.avg
               = compute_results_body(data, ret.args[1], ret.args[2], "Avg").value
          /\ ret.out.value.high
               = compute_results_body(data, ret.args[1], ret.args[2], "High").value

(***************************************************************************)
(* Claims about the Dataset load and override (checked under SpecLoad)     *)
(***************************************************************************)
\* An override none of whose rows validated.
ZeroValidOverride ==
    ret.op = "script_run" /\ ret.uploaded /\ ret.override_data = << >>

\* C11: an override with zero valid records reports that condition itself: the
\* run shows something other than the per-row warnings, which a partially
\* successful override shows too.
C11_NoValidRowsReported ==
    ZeroValidOverride
    => \E i \in DOMAIN ret.messages : ret.messages[i].kind # "row_warning"

RecordOf(row) ==
    [f \in {FieldNames[i] : i \in DOMAIN FieldNames} |->
        IF f = "building_type" THEN row["Building Type"]
        ELSE IF AliasOf(f) \notin DOMAIN row \/ row[AliasOf(f)] \in {"", NaN}
        THEN NoFloat
        ELSE Float(FloatOf[row[AliasOf(f)]])]

Indexes(rows) == [i \in 1..Len(rows) |-> i]

\* C19: the rows loaded from a sequence are exactly its valid rows (non-empty
\* Building Type, every provided rate numeric), in source order; every other row
\* is reported with index + 2, and the rows after it are still processed.
C19_LoadKeepsExactlyValidRows ==
    (ret.op = "script_run" /\ ret.uploaded)
    => LET rows == read_csv(ret.file)
           good == SelectSeq(Indexes(rows), LAMBDA i : WellFormedRow(rows[i]))
           bad == SelectSeq(Indexes(rows), LAMBDA i : ~WellFormedRow(rows[i]))
       IN /\ ret.override_data = [k \in DOMAIN good |-> RecordOf(rows[good[k]])]
          /\ ret.override_warnings = [k \in DOMAIN bad |-> (bad[k] - 1) + 2]

\* C20: building_type is a unique key of the Dataset: no two of its records
\* share a building type.
C20_BuildingTypeUnique ==
    \A i, j \in DOMAIN validated_data :
        i # j => validated_data[i].building_type # validated_data[j].building_type

\* C24: a successful override replaces the Dataset wholesale: the Dataset and the
\* building-type list hold exactly the override's valid rows, and a building type
\* only the previous Dataset had is no longer found.
C24_OverrideReplacesWholesale ==
    (ret.op = "script_run" /\ ret.uploaded /\ ret.override_data # << >>)
    => /\ validated_data = ret.override_data
       /\ building_types = type_list(ret.override_data)
       /\ \A i \in DOMAIN ret.types_before_override :
             (\A j \in DOMAIN ret.override_data :
                 ret.override_data[j].building_type # ret.types_before_override[i])
             => /\ lookup(validated_data, ret.types_before_override[i]) = NoneValue
                /\ \A j \in DOMAIN building_types :
                      building_types[j] # ret.types_before_override[i]

\* C24 witness: an override with a rejected row and a valid Hotel row replaced a
\* Dataset that also had Office.
C24_Witness ==
    /\ ret.op = "script_run" /\ ret.uploaded /\ custom_data_loaded
    /\ ret.override_warnings # << >>
    /\ building_types = <<"Hotel">>
    /\ \E i \in DOMAIN ret.types_before_override :
          ret.types_before_override[i] = "Office"

(***************************************************************************)
(* Claims about the project store adapter (checked under SpecStore)        *)
(***************************************************************************)
Keys == Usernames \X ProjectNames

SavedBlob(item) == json_loads(item.config)

\* C1: across successful saves under one (owner, project_name) with no delete in
\* between, the stored created_at (top-level and in the config blob) stays the one
\* the first save wrote: a step never changes the created_at of a current record.
C1_CreatedAtImmutable ==
    [][\A k \in Keys :
          (k \in DOMAIN table /\ k \in DOMAIN table'
             /\ IsCurrent(table[k]) /\ IsCurrent(table'[k]))
          => /\ table'[k].created_at = table[k].created_at
             /\ SavedBlob(table'[k]).created_at = SavedBlob(table[k]).created_at]_vars

\* C2: when a store call made by save_project fails (the get_item lookup or the
\* put_item write), save_project returns a failure carrying the store's error and
\* the table is left as it was.
C2_StoreFailureSurfaced ==
    [][(ret'.op = "save_project" /\ ret'.store_called
          /\ (ret'.get_failed \/ ret'.put_failed))
       => (ret'.ok = FALSE /\ ret'.msg = "ClientError" /\ table' = table)]_vars

\* C4: load_project_config on a legacy item (results, no config) returns a failure
\* outcome of its own kind, raises nothing, and leaves the session state alone.
C4_LegacyUnsupportedReturned ==
    [][(/\ ret'.op = "load_project_config"
        /\ ret'.store_called /\ ~ret'.get_failed
        /\ <<ret'.username, ret'.name>> \in DOMAIN table
        /\ IsLegacy(table[<<ret'.username, ret'.name>>]))
       => (/\ ret'.raised = "none"
           /\ ret'.ok = FALSE
           /\ ret'.msg \notin {"Project not found", "ClientError",
                               "Please log in to load projects"}
           /\ session_state' = session_state)]_vars

\* C5: delete_project on a key with no stored record reports NotFound (not
\* success); on an existing key it reports success and removes exactly that record.
C5_DeleteMissingIsNotFound ==
    [][(ret'.op = "delete_project" /\ ret'.store_called /\ ~ret'.put_failed)
       => LET k == <<ret'.username, ret'.name>>
          IN IF k \in DOMAIN table
             THEN ret'.ok = TRUE /\ table' = delete_item(table, k[1], k[2])
             ELSE ret'.ok = FALSE /\ table' = table]_vars

\* C6: a save that finds no record at the key writes created_at = updated_at,
\* top-level and in the config blob.
C6_FreshSaveCreatedEqualsUpdated ==
    [][(ret'.op = "save_project" /\ ret'.ok = TRUE /\ ~ret'.get_failed
          /\ <<ret'.username, ret'.name>> \notin DOMAIN table)
       => LET item == table'[<<ret'.username, ret'.name>>]
          IN /\ item.created_at = item.updated_at
             /\ SavedBlob(item).created_at = SavedBlob(item).updated_at]_vars

\* A save_project step that wrote its record.
SaveSucceeded == ret'.op = "save_project" /\ ret'.ok = TRUE

\* The fields of a stored record other than updated_at.
SameButUpdatedAt(old, new) ==
    /\ new.created_at = old.created_at
    /\ [SavedBlob(new) EXCEPT !.updated_at = 0] = [SavedBlob(old) EXCEPT !.updated_at = 0]
    /\ DOMAIN new = DOMAIN old

\* C14: after a successful save the record at (owner, name) holds that call's
\* selection list, current building type, square footage and range results, and
\* its updated_at is the time of the call; a save of the inputs the record
\* already holds changes nothing but updated_at.
C14_SaveStoresPayload ==
    [][SaveSucceeded
       => LET k == <<ret'.username, ret'.name>>
              sent == dict(ret'.project_config)
              blob == SavedBlob(table'[k])
          IN /\ blob.selected_building_types = sent.selected_building_types
             /\ blob.current_building_type = sent.current_building_type
             /\ blob.square_footage = sent.square_footage
             /\ blob.range_results = sent.range_results
             /\ table'[k].updated_at \in clock..clock'
             /\ blob.updated_at = table'[k].updated_at
             /\ (/\ k \in DOMAIN table /\ IsCurrent(table[k])
                 /\ [SavedBlob(table[k]) EXCEPT !.updated_at = 0, !.created_at = 0]
                      = [sent EXCEPT !.updated_at = 0, !.created_at = 0])
                => SameButUpdatedAt(table[k], table'[k])]_vars

\* C15: the config blob a save writes deserializes to the ProjectConfig that was
\* serialized, nested Results and design_params included, and a load of it gives
\* that ProjectConfig and restores its selection list, current building type and
\* square footage into the session.
C15_ConfigRoundTrip ==
    [][/\ SaveSucceeded
          => \A config_data \in {json_loads(table'[<<ret'.username, ret'.name>>].config)} :
                ProjectConfig_validate(config_data) = ret'.project_config
       /\ (ret'.op = "load_project_config" /\ ret'.ok = TRUE)
          => LET project_config == ret'.project_config
             IN /\ table[<<ret'.username, ret'.name>>].config
                     = json_dumps(dict(project_config))
                /\ \E p \in Payloads :
                      /\ project_config = ProjectConfig(ret'.name, p,
                                                        project_config.created_at,
                                                        project_config.updated_at)
                      /\ session_state'.loaded_selected_blds = p.selected_building_types
                      /\ session_state'.loaded_current_bld = p.current_building_type
                      /\ session_state'.loaded_sq_ft = p.square_footage]_vars

\* C15 witness: a saved project with two selected building types was loaded back.
C15_Witness ==
    /\ ret.op = "load_project_config" /\ ret.ok = TRUE
    /\ ret.project_config.range_results = RangeB
    /\ session_state.loaded_selected_blds = <<"Office", "Hotel">>
    /\ session_state.loaded_sq_ft = 9000

\* C16: a save on a key that holds a legacy record succeeds as a create, writes a
\* fresh created_at instead of the legacy one, and leaves a current-schema record
\* with no `results` attribute.
C16_SaveOverLegacy ==
    [][(/\ ret'.op = "save_project" /\ ret'.store_called /\ ~ret'.put_failed
        /\ <<ret'.username, ret'.name>> \in DOMAIN table
        /\ IsLegacy(table[<<ret'.username, ret'.name>>]))
       => LET k == <<ret'.username, ret'.name>>
          IN /\ ret'.ok = TRUE /\ ret'.msg = "Project saved!"
             /\ table'[k].created_at \in clock..clock'
             /\ table'[k].created_at # table[k].created_at
             /\ SavedBlob(table'[k]).created_at = table'[k].created_at
             /\ IsCurrent(table'[k])
             /\ "results" \notin DOMAIN table'[k]]_vars

\* C16 witness: a save whose lookup found a record without `config` went through.
C16_Witness ==
    /\ ret.op = "save_project" /\ ret.ok = TRUE /\ ret.swallowed = "KeyError"
    /\ IsCurrent(table[<<ret.username, ret.name>>])

\* The session keys a load writes.
LoadedKeys ==
    {"loaded_selected_blds", "loaded_current_bld", "loaded_sq_ft", "project_loaded",
     "loaded_project_name", "need_widget_reset"}

\* C17: load_project_config on a key with no record returns "Project not found"
\* and leaves the loaded-project session state as it was.
C17_LoadMissingIsNotFound ==
    [][(/\ ret'.op = "load_project_config"
        /\ ret'.store_called /\ ~ret'.get_failed
        /\ <<ret'.username, ret'.name>> \notin DOMAIN table)
       => /\ ret'.ok = FALSE /\ ret'.msg = "Project not found"
          /\ ret'.raised = "none"
          /\ DOMAIN session_state' = DOMAIN session_state
          /\ \A key \in LoadedKeys \cap DOMAIN session_state :
                session_state'[key] = session_state[key]]_vars

\* C17 witness: "Project not found" came back while an earlier load is in the session.
C17_Witness ==
    /\ ret.op = "load_project_config" /\ ret.msg = "Project not found"
    /\ session_state.project_loaded = TRUE
    /\ session_state.loaded_project_name = ret.name

\* C18: a listed item is shown as current exactly when it has a `config` (that
\* parses), with building type, square footage and average tonnage; as legacy,
\* with flat tonnage, occupancy and electrical and loading disabled, exactly when
\* it has `results` and no `config`; and as invalid otherwise.
C18_ListingClassification ==
    (ret.op = "load_projects" /\ ret.ok = TRUE)
    => \A i \in DOMAIN ret.items :
          LET item == ret.items[i]
              entry == ret.summaries[i]
              shown == entry.summary.detail_text.shows
              label == entry.summary.preview_text.label
              has_config == "config" \in DOMAIN item
              parses == has_config /\ ~JSONDecodeError(item.config)
              has_results == "results" \in DOMAIN item
          IN /\ entry.project_name = item.project_name
             /\ (shown = "building type, sq ft, tons") <=> parses
             /\ parses
                  => /\ entry.summary.detail_text.building_type
                          = SavedBlob(item).current_building_type
                     /\ entry.summary.detail_text.sq_ft = SavedBlob(item).square_footage
                     /\ entry.summary.detail_text.avg_tonnage
                          = SavedBlob(item).range_results.avg.tonnage
                     /\ label = "" /\ ~entry.load_disabled
             /\ (shown = "tons, people, kW") <=> (has_results /\ ~has_config)
             /\ (label = "Legacy Format") <=> (has_results /\ ~has_config)
             /\ entry.load_disabled <=> (has_results /\ ~has_config)
             /\ (has_results /\ ~has_config)
                  => /\ entry.summary.detail_text.tonnage
                          = json_loads(item.results).tonnage
                     /\ entry.summary.detail_text.occupancy
                          = json_loads(item.results).total_occupancy
                     /\ entry.summary.detail_text.electrical
                          = json_loads(item.results).electrical_kw
             /\ (~parses /\ ~(has_results /\ ~has_config))
                  => label \in {"Invalid project data", "Error loading project"}

\* C18 witness: a listing that shows a legacy item with its Load button disabled.
C18_Witness ==
    /\ ret.op = "load_projects" /\ ret.ok = TRUE
    /\ \E i \in DOMAIN ret.items :
          IsLegacy(ret.items[i]) /\ ret.summaries[i].load_disabled

(***************************************************************************)
(* Claims about concurrent saves (checked under SpecSaves)                 *)
(***************************************************************************)
\* C25: when two sessions save the same key and each looks the key up before
\* the other writes, the later write still leaves the created_at the first
\* write stored: no put_item replaces the created_at of a stored record.
C25_RacingSavesKeepCreatedAt ==
    [][\A s \in Sessions :
          (inflight[s] # Idle /\ inflight'[s] = Idle)
          => LET k == <<inflight[s].username, inflight[s].project_name>>
             IN (HasItem(k) /\ IsCurrent(table[k]))
                => /\ table'[k].created_at = table[k].created_at
                   /\ SavedBlob(table'[k]).created_at = SavedBlob(table[k]).created_at]_vars

(***************************************************************************)
(* Claims about who may reach the store (checked under SpecStore)          *)
(***************************************************************************)
StoreOps == {"save_project", "load_project_config", "delete_project", "load_projects"}

NotLoggedInOutcomes ==
    {"Please log in to save projects", "Please log in to load projects",
     "Please log in to delete projects", None}

\* C26: a store access of save / load / delete / load_projects uses the
\* signed-in user's username as partition key, and with no user signed in the
\* function returns its not-logged-in outcome without touching the store.
C26_StoreOnlyForSignedInUser ==
    ret.op \in StoreOps
    => IF DictGet(session_state, "access_token", None) # None
       THEN ret.store_called => /\ ret.username \in Usernames
                                /\ ret.username = session_state["username"]
       ELSE /\ ~ret.store_called
            /\ ~ret.ok
            /\ ret.msg \in NotLoggedInOutcomes

(***************************************************************************)
(* Claims about the sidebar (checked under SpecUi and SpecConfirm)         *)
(***************************************************************************)
\* C27: whenever project_loaded is true with loaded_project_name = P, the
\* signed-in user has a current-schema record P in the store; deleting P or
\* signing out clears the loaded-project state.
C27_LoadedProjectExists ==
    LoadedControls
    => /\ LoggedInUi
       /\ HasItem(<<session_state["username"], session_state["loaded_project_name"]>>)
       /\ IsCurrent(table[<<session_state["username"],
                            session_state["loaded_project_name"]>>])

\* The listed projects whose confirm_delete flag is set.
Confirming == {n \in ListedNames : Listed(n) /\ confirming(session_state, n)}

\* C28: delete_project(P) runs only on a Yes click made while confirm_delete_P
\* was set, the flag is set only by a Delete click on P, every Yes or No click
\* leaves P's flag false, and at most one listed project has its flag set.
C28_DeleteNeedsConfirmation ==
    [][/\ ret'.op = "delete_project"
          => /\ confirming(session_state, ret'.name)
             /\ ~confirming(session_state', ret'.name)
       /\ ret'.op = "click_no"
          => /\ confirming(session_state, ret'.name)
             /\ ~confirming(session_state', ret'.name)
       /\ \A n \in ListedNames :
             (confirming(session_state', n) /\ ~confirming(session_state, n))
             => (ret'.op = "click_delete" /\ ret'.name = n)
       /\ Cardinality(Confirming') <= 1]_vars

\* C28 witness: a confirmed delete removed P1 while P2 stays listed, after P2's
\* own confirmation had been opened and closed.
C28_Witness ==
    /\ ret.op = "delete_project" /\ ret.ok /\ ret.name = "P1"
    /\ ~HasItem(<<ret.username, "P1">>)
    /\ Listed("P2")
    /\ confirm_key("P2") \in DOMAIN session_state
    /\ Confirming = {}


====
